---- MODULE Spec2Model ----
(***************************************************************************)
(* A model of the api application: the persistence schema of models.py     *)
(* (User, Product, Order, OrderItem with their CASCADE foreign keys), the  *)
(* serializers of serializers.py, the filter backends of filters.py, the   *)
(* views of views.py and the URLconf of urls.py.                            *)
(*                                                                         *)
(* Money is a Decimal with two decimal places (models.py:31); the model    *)
(* holds it as its integer number of hundredths, so 19.99 is 1999.  Decimal *)
(* times int and Decimal plus Decimal are exact below 28 significant       *)
(* digits, which a ten digit price and the bounded quantities never reach. *)
(***************************************************************************)
EXTENDS Integers, Sequences, FiniteSets, TLC

\* ------------------------------------------------------------------ bounds
MaxUsers == 2
MaxOrders == 2
MaxProducts == 2
MaxItems == 2
MaxQuantity == 2

UserIds == 1..MaxUsers
OrderIds == 1..MaxOrders
ProductIds == 1..MaxProducts
ItemIds == 1..MaxItems

\* request.user of a request without credentials: AnonymousUser.
AnonymousUser == 0
\* A request parameter or payload field that was not sent.
Absent == "absent"

VARIABLES
    users,      \* User table:      id -> [is_staff]
    products,   \* Product table:   pk -> [name, price, stock]
    orders,     \* Order table:     order_id -> [user, status]
    items,      \* OrderItem table: id -> [order, product, quantity]
    request,    \* the request the last step handled
    response,   \* the response it produced
    workers,    \* worker thread -> the product request it handles and its view instance
    class_dict, \* view class -> the attributes assigned on the class
    info        \* the product-info request in flight

vars == <<users, products, orders, items, request, response, workers, class_dict, info>>
\* The requests handled step by step: the specifications of whole requests
\* leave them alone.
stepwise == <<workers, class_dict, info>>

\* ------------------------------------------------------------- models.py
\* Order.StatusChoices
PENDING == "Pending"
CONFIRMED == "Confirmed"
CANCELLED == "Cancelled"
StatusChoices == {PENDING, CONFIRMED, CANCELLED}

\* Product.in_stock
in_stock(p) == p.stock > 0

\* Mutant: the subtotal cut to whole units, as int(price * quantity) would.
item_subtotal_whole(it) == ((products[it.product].price * it.quantity) \div 100) * 100

\* OrderItem.item_subtotal, in hundredths
item_subtotal(it) == products[it.product].price * it.quantity

\* The rows a table keeps when the rows `gone` are deleted.
Without(table, gone) == [k \in (DOMAIN table) \ gone |-> table[k]]
\* The table with a row stored under pk.
WithRow(table, pk, row) == [k \in (DOMAIN table) \cup {pk} |-> IF k = pk THEN row ELSE table[k]]

\* on_delete=CASCADE of OrderItem.order: the items that go with the orders `os`.
ItemsOfOrders(os) == {i \in DOMAIN items : items[i].order \in os}
\* Mutant: OrderItem.product declared on_delete=DO_NOTHING.
ItemsOfProducts_none(ps) == {}

\* on_delete=CASCADE of OrderItem.product
ItemsOfProducts(ps) == {i \in DOMAIN items : items[i].product \in ps}
\* on_delete=CASCADE of Order.user
OrdersOfUsers(us) == {o \in DOMAIN orders : orders[o].user \in us}

\* obj.items.all() for an order: its items in primary key order.
RECURSIVE SortedSeq(_)
SortedSeq(S) ==
    IF S = {} THEN <<>>
    ELSE LET m == CHOOSE x \in S : \A y \in S : x <= y
         IN <<m>> \o SortedSeq(S \ {m})
order_items(o) == SortedSeq(ItemsOfOrders({o}))

\* ------------------------------------------------- request.user, permissions
is_authenticated(u) == u \in DOMAIN users
is_staff(u) == u \in DOMAIN users /\ users[u].is_staff

\* A request carries the session of a stored user, or no credentials.
Principals == (DOMAIN users) \cup {AnonymousUser}

AllowAny(u) == TRUE
IsAuthenticated(u) == is_authenticated(u)
IsAdminUser(u) == is_staff(u)

\* APIView.permission_denied: a request without credentials is answered 401
\* (tests.py:94), one with credentials 403.
Denied(u) == IF is_authenticated(u) THEN 403 ELSE 401

\* --------------------------------------------------------- serializers.py
\* Mutant: the comparison of serializers.py:32 written value < 0.
validate_price_zero_passes(value) == ~(value < 0)

\* ProductSerializer.validate_price: TRUE when the value is returned, FALSE
\* when ValidationError is raised.
validate_price(value) == ~(value <= 0)

\* ProductSerializer: fields description, name, price, stock (the model
\* carries no description: it is free text that no code reads).
ProductSerializer(pk) ==
    [name |-> products[pk].name, price |-> products[pk].price, stock |-> products[pk].stock]

\* OrderItemSerializer: product_name, product_price, quantity, item_subtotal
OrderItemSerializer(i) ==
    [product_name |-> products[items[i].product].name,
     product_price |-> products[items[i].product].price,
     quantity |-> items[i].quantity,
     item_subtotal |-> item_subtotal(items[i])]

\* sum(...) of Python over a sequence of item ids, starting from 0
RECURSIVE sum_subtotals(_)
sum_subtotals(seq) ==
    IF seq = <<>> THEN 0
    ELSE item_subtotal(items[Head(seq)]) + sum_subtotals(Tail(seq))

\* OrderSerializer.get_total_price
get_total_price(o) == sum_subtotals(order_items(o))

\* OrderSerializer: order_id, user, status, items, total_price (created_at,
\* a timestamp no code compares, is left out)
OrderSerializer(o) ==
    [order_id |-> o, user |-> orders[o].user, status |-> orders[o].status,
     items |-> [k \in 1..Len(order_items(o)) |-> OrderItemSerializer(order_items(o)[k])],
     total_price |-> get_total_price(o)]

\* ------------------------------------------------------------- filters.py
\* OrderFilter, field status, lookup exact (the created_at lookups are left
\* out with created_at)
OrderFilter(qs, status) == IF status = Absent THEN qs ELSE {o \in qs : orders[o].status = status}

\* InStockFilterBackend.filter_queryset
InStockFilterBackend(qs) == {p \in qs : products[p].stock > 0}

\* ---------------------------------------------------- views.py: OrderViewSet
\* A payload field holds the set of the values sent for it: none or one.
NoPayload == [user |-> {}, status |-> {}]
OrderPayloads == [user : {{}} \cup {{u} : u \in UserIds},
                  status : {{}} \cup {{c} : c \in StatusChoices}]
Sent(field) == CHOOSE x \in field : TRUE

\* The server between two requests: the last response was delivered.
NoRequest == [view |-> "none", action |-> "none", method |-> "none", user |-> AnonymousUser,
              pk |-> 0, params |-> [status |-> Absent], payload |-> NoPayload]
NoResponse == [status |-> 0, data |-> {}]
Idle == request.view = "none"

OrderRequest(action, method, u, pk, status, payload) ==
    [view |-> "OrderViewSet", action |-> action, method |-> method, user |-> u,
     pk |-> pk, params |-> [status |-> status], payload |-> payload]

\* A response without a body: an error, or 204 No Content.
Error(code) == [status |-> code, data |-> {}]

\* Mutant: the view set left open (permission_classes = [AllowAny]).
OrderViewSet_permission_open(u) == AllowAny(u)

\* permission_classes = [IsAuthenticated]
OrderViewSet_permission(u) == IsAuthenticated(u)

\* Mutant: the queryset without the owner filter of views.py:118-119.
get_queryset_unscoped(u) == DOMAIN orders

\* OrderViewSet.get_queryset
get_queryset(u) ==
    IF ~is_staff(u) THEN {o \in DOMAIN orders : orders[o].user = u} ELSE DOMAIN orders

\* GenericAPIView.filter_queryset with filter_backends = [DjangoFilterBackend]
\* and filterset_class = OrderFilter
filter_queryset(qs, status) == OrderFilter(qs, status)

\* Mutant: the lookup made on Order.objects instead of the view's queryset.
get_object_any(u, pk, status) == {o \in DOMAIN orders : o = pk}

\* GenericAPIView.get_object: the order of the filtered queryset with this
\* pk, or none (get_object_or_404 raises Http404)
get_object(u, pk, status) == {o \in filter_queryset(get_queryset(u), status) : o = pk}

\* OrderSerializer validation of a payload: user is required unless the
\* update is partial, and must name a stored user; status, when sent, is one
\* of the choices.
OrderPayloadValid(payload, partial) ==
    /\ payload.user = {} => partial
    /\ payload.user \subseteq DOMAIN users

\* ModelViewSet.list (pagination_class = None: the whole queryset)
OrderListResponse(u, status) ==
    IF ~OrderViewSet_permission(u) THEN Error(Denied(u))
    ELSE [status |-> 200,
          data |-> {OrderSerializer(o) : o \in filter_queryset(get_queryset(u), status)}]

OrderList(u, status) ==
    /\ Idle
    /\ request' = OrderRequest("list", "GET", u, 0, status, NoPayload)
    /\ response' = OrderListResponse(u, status)
    /\ UNCHANGED <<users, products, orders, items>>

\* ModelViewSet.retrieve
OrderRetrieve(u, pk, status) ==
    /\ Idle
    /\ request' = OrderRequest("retrieve", "GET", u, pk, status, NoPayload)
    /\ response' =
         IF ~OrderViewSet_permission(u) THEN Error(Denied(u))
         ELSE IF get_object(u, pk, status) = {} THEN Error(404)
         ELSE [status |-> 200, data |-> {OrderSerializer(pk)}]
    /\ UNCHANGED <<users, products, orders, items>>

\* ModelViewSet.create: order_id defaults to a fresh uuid4, status to Pending
OrderCreate(u, payload, oid) ==
    /\ Idle
    /\ oid \in OrderIds \ DOMAIN orders
    /\ request' = OrderRequest("create", "POST", u, 0, Absent, payload)
    /\ IF ~OrderViewSet_permission(u)
       THEN response' = Error(Denied(u)) /\ UNCHANGED orders
       ELSE IF ~OrderPayloadValid(payload, FALSE)
       THEN response' = Error(400) /\ UNCHANGED orders
       ELSE /\ orders' = WithRow(orders, oid,
                   [user |-> Sent(payload.user),
                    status |-> IF payload.status = {} THEN PENDING ELSE Sent(payload.status)])
            /\ response' = [status |-> 201,
                   data |-> {[order_id |-> oid, user |-> orders'[oid].user,
                              status |-> orders'[oid].status, items |-> <<>>,
                              total_price |-> 0]}]
    /\ UNCHANGED <<users, products, items>>

\* ModelViewSet.update (PUT) and partial_update (PATCH)
OrderUpdate(u, pk, payload, partial) ==
    /\ Idle
    /\ request' = OrderRequest(IF partial THEN "partial_update" ELSE "update",
                               IF partial THEN "PATCH" ELSE "PUT", u, pk, Absent, payload)
    /\ IF ~OrderViewSet_permission(u)
       THEN response' = Error(Denied(u)) /\ UNCHANGED orders
       ELSE IF get_object(u, pk, Absent) = {}
       THEN response' = Error(404) /\ UNCHANGED orders
       ELSE IF ~OrderPayloadValid(payload, partial)
       THEN response' = Error(400) /\ UNCHANGED orders
       ELSE /\ orders' = [orders EXCEPT ![pk] =
                   [user |-> IF payload.user = {} THEN @.user ELSE Sent(payload.user),
                    status |-> IF payload.status = {} THEN @.status ELSE Sent(payload.status)]]
            /\ response' = [status |-> 200,
                   data |-> {[OrderSerializer(pk) EXCEPT !.user = orders'[pk].user,
                                                        !.status = orders'[pk].status]}]
    /\ UNCHANGED <<users, products, items>>

\* ModelViewSet.destroy: Order.delete() takes the order's items with it
OrderDestroy(u, pk) ==
    /\ Idle
    /\ request' = OrderRequest("destroy", "DELETE", u, pk, Absent, NoPayload)
    /\ IF ~OrderViewSet_permission(u)
       THEN response' = Error(Denied(u)) /\ UNCHANGED <<orders, items>>
       ELSE IF get_object(u, pk, Absent) = {}
       THEN response' = Error(404) /\ UNCHANGED <<orders, items>>
       ELSE /\ orders' = Without(orders, {pk})
            /\ items' = Without(items, ItemsOfOrders({pk}))
            /\ response' = Error(204)
    /\ UNCHANGED <<users, products>>

\* ------------------------- views.py: ProductListCreateAPIView, ProductDetailAPIView
NameValues == {"pen", "ink"}
\* Prices a client sends, in hundredths: negative, zero, 5.00 and 19.99.
PriceInputs == {-500, 0, 500, 1999}
StockInputs == {0, 3}

\* pagination_class.page_size and pagination_class.max_page_size
PageSize == 2
MaxPageSize == 6

NoProductParams == [name |-> {}, price__gt |-> {}, pagenum |-> {}, size |-> {}]
NoProductPayload == [name |-> {}, price |-> {}, stock |-> {}]
OneOrNone(S) == {{}} \cup {{x} : x \in S}
ProductPayloads == [name : OneOrNone(NameValues), price : OneOrNone(PriceInputs),
                    stock : OneOrNone(StockInputs)]

ProductRequest(view, action, method, u, pk, params, payload, backends) ==
    [view |-> view, action |-> action, method |-> method, user |-> u, pk |-> pk,
     params |-> params, payload |-> payload, backends |-> backends]

\* A product response: the serialized products it carries, and for a list
\* the count of the paginated queryset.
ProductResponse(code, count, results) == [status |-> code, count |-> count, results |-> results]
ProductError(code) == ProductResponse(code, 0, <<>>)

\* ProductListCreateAPIView.get_permissions
ProductListCreate_permission(method, u) ==
    IF method = "POST" THEN IsAdminUser(u) ELSE AllowAny(u)

\* Mutant: DELETE missing from the guarded methods.
ProductDetail_permission_no_delete(method, u) ==
    IF method \in {"PUT", "PATCH"} THEN IsAdminUser(u) ELSE AllowAny(u)

\* ProductDetailAPIView.get_permissions
ProductDetail_permission(method, u) ==
    IF method \in {"PUT", "DELETE", "PATCH"} THEN IsAdminUser(u) ELSE AllowAny(u)

\* ProductFilter: name, lookup iexact; price, lookup gt (of the declared
\* lookups the two the model draws parameters for)
ProductFilter(qs, params) ==
    {p \in qs : /\ params.name \subseteq {products[p].name}
                /\ \A v \in params.price__gt : products[p].price > v}

\* The attribute the class sets, views.py:160-163.  GenericAPIView reads
\* filter_backends; no code reads filter_backend.
filter_backend ==
    <<"DjangoFilterBackend", "SearchFilter", "OrderingFilter", "InStockFilterBackend">>

\* What GenericAPIView.filter_backends is for a view that does not set it:
\* the project's DEFAULT_FILTER_BACKENDS, none or DjangoFilterBackend.
DefaultFilterBackends == {<<>>, <<"DjangoFilterBackend">>}

\* One filter backend applied to a product queryset.  SearchFilter and
\* OrderingFilter read search_fields and ordering_fields, which the class
\* does not set (it sets search_field and ordering_field): they keep the queryset.
ApplyBackend(backend, qs, params) ==
    CASE backend = "DjangoFilterBackend" -> ProductFilter(qs, params)
      [] backend = "InStockFilterBackend" -> InStockFilterBackend(qs)
      [] OTHER -> qs

\* GenericAPIView.filter_queryset: every backend of filter_backends in turn
RECURSIVE product_filter_queryset(_, _, _)
product_filter_queryset(backends, qs, params) ==
    IF backends = <<>> THEN qs
    ELSE product_filter_queryset(Tail(backends), ApplyBackend(Head(backends), qs, params), params)

\* PageNumberPagination.get_page_size: the size parameter cut off at
\* max_page_size, page_size without it
get_page_size(params) ==
    IF params.size = {} THEN PageSize
    ELSE IF Sent(params.size) > MaxPageSize THEN MaxPageSize ELSE Sent(params.size)

\* Paginator.num_pages, with allow_empty_first_page
num_pages(count, per_page) == IF count = 0 THEN 1 ELSE (count + per_page - 1) \div per_page

\* ListCreateAPIView.list: queryset ordered by pk, filtered, one page of it
ProductList(u, params, backends) ==
    /\ Idle
    /\ request' = ProductRequest("ProductListCreateAPIView", "list", "GET", u, 0, params,
                                 NoProductPayload, backends)
    /\ response' =
         IF ~ProductListCreate_permission("GET", u) THEN ProductError(Denied(u))
         ELSE LET qs == SortedSeq(product_filter_queryset(backends, DOMAIN products, params))
                  per_page == get_page_size(params)
                  number == IF params.pagenum = {} THEN 1 ELSE Sent(params.pagenum)
                  first == (number - 1) * per_page + 1
                  last == IF number * per_page > Len(qs) THEN Len(qs) ELSE number * per_page
              IN IF number > num_pages(Len(qs), per_page) THEN ProductError(404)
                 ELSE ProductResponse(200, Len(qs),
                          [k \in 1..(last - first + 1) |-> ProductSerializer(qs[first + k - 1])])
    /\ UNCHANGED <<users, products, orders, items>>

\* ProductSerializer validation: every field is required unless the update
\* is partial; a price that is sent passes validate_price.
ProductPayloadValid(payload, partial) ==
    /\ ~partial => (payload.name # {} /\ payload.price # {} /\ payload.stock # {})
    /\ \A v \in payload.price : validate_price(v)

\* ListCreateAPIView.create: the row gets a fresh primary key
ProductCreate(u, payload, pk) ==
    /\ Idle
    /\ pk \in ProductIds \ DOMAIN products
    /\ request' = ProductRequest("ProductListCreateAPIView", "create", "POST", u, 0,
                                 NoProductParams, payload, <<>>)
    /\ IF ~ProductListCreate_permission("POST", u)
       THEN response' = ProductError(Denied(u)) /\ UNCHANGED products
       ELSE IF ~ProductPayloadValid(payload, FALSE)
       THEN response' = ProductError(400) /\ UNCHANGED products
       ELSE /\ products' = WithRow(products, pk,
                   [name |-> Sent(payload.name), price |-> Sent(payload.price),
                    stock |-> Sent(payload.stock)])
            /\ response' = ProductResponse(201, 0, <<products'[pk]>>)
    /\ UNCHANGED <<users, orders, items>>

\* RetrieveUpdateDestroyAPIView.retrieve
ProductRetrieve(u, pk) ==
    /\ Idle
    /\ request' = ProductRequest("ProductDetailAPIView", "retrieve", "GET", u, pk,
                                 NoProductParams, NoProductPayload, <<>>)
    /\ response' =
         IF ~ProductDetail_permission("GET", u) THEN ProductError(Denied(u))
         ELSE IF pk \notin DOMAIN products THEN ProductError(404)
         ELSE ProductResponse(200, 0, <<ProductSerializer(pk)>>)
    /\ UNCHANGED <<users, products, orders, items>>

\* RetrieveUpdateDestroyAPIView.update (PUT) and partial_update (PATCH)
ProductUpdate(u, pk, payload, partial) ==
    LET method == IF partial THEN "PATCH" ELSE "PUT" IN
    /\ Idle
    /\ request' = ProductRequest("ProductDetailAPIView",
                                 IF partial THEN "partial_update" ELSE "update", method,
                                 u, pk, NoProductParams, payload, <<>>)
    /\ IF ~ProductDetail_permission(method, u)
       THEN response' = ProductError(Denied(u)) /\ UNCHANGED products
       ELSE IF pk \notin DOMAIN products
       THEN response' = ProductError(404) /\ UNCHANGED products
       ELSE IF ~ProductPayloadValid(payload, partial)
       THEN response' = ProductError(400) /\ UNCHANGED products
       ELSE /\ products' = [products EXCEPT ![pk] =
                   [name |-> IF payload.name = {} THEN @.name ELSE Sent(payload.name),
                    price |-> IF payload.price = {} THEN @.price ELSE Sent(payload.price),
                    stock |-> IF payload.stock = {} THEN @.stock ELSE Sent(payload.stock)]]
            /\ response' = ProductResponse(200, 0, <<products'[pk]>>)
    /\ UNCHANGED <<users, orders, items>>

\* RetrieveUpdateDestroyAPIView.destroy: Product.delete() takes the items
\* of the product with it
ProductDestroy(u, pk) ==
    /\ Idle
    /\ request' = ProductRequest("ProductDetailAPIView", "destroy", "DELETE", u, pk,
                                 NoProductParams, NoProductPayload, <<>>)
    /\ IF ~ProductDetail_permission("DELETE", u)
       THEN response' = ProductError(Denied(u)) /\ UNCHANGED <<products, items>>
       ELSE IF pk \notin DOMAIN products
       THEN response' = ProductError(404) /\ UNCHANGED <<products, items>>
       ELSE /\ products' = Without(products, {pk})
            /\ items' = Without(items, ItemsOfProducts({pk}))
            /\ response' = ProductError(204)
    /\ UNCHANGED <<users, orders>>

\* ------------------------------------------------------------------ urls.py
urlpatterns ==
    << [route |-> "product/", view |-> "ProductListCreateAPIView", name |-> ""],
       [route |-> "product/<int:product_id>", view |-> "ProductDetailAPIView", name |-> ""],
       [route |-> "order/", view |-> "OrderListAPIView", name |-> ""],
       [route |-> "product/info/", view |-> "ProductInfoAPIView", name |-> ""],
       [route |-> "user-orders/", view |-> "UserOrderListAPIView", name |-> "user-orders"] >>

\* The classes views.py defines (OrderListAPIView and UserOrderListAPIView
\* are commented out, views.py:20-62).
views_defined ==
    {"OrderViewSet", "ProductInfoAPIView", "ProductListCreateAPIView", "ProductDetailAPIView"}

\* Importing api.urls evaluates every views.<name> of urlpatterns; a name
\* views.py does not define raises AttributeError.
urlconf_imports == \A k \in DOMAIN urlpatterns : urlpatterns[k].view \in views_defined

\* reverse(name): the view the pattern of that name is bound to.
reverse(name) == urlpatterns[CHOOSE k \in DOMAIN urlpatterns : urlpatterns[k].name = name].view

\* GET reverse('user-orders'), as tests.py:61 and tests.py:88 request it.  With
\* a URLconf that cannot be imported the request ends in a server error.
UserOrdersRequest(u) ==
    /\ Idle
    /\ request' = [view |-> "user-orders", action |-> "list", method |-> "GET", user |-> u,
                   pk |-> 0, params |-> [status |-> Absent], payload |-> NoPayload]
    /\ response' =
         IF ~urlconf_imports THEN Error(500)
         ELSE IF reverse("user-orders") = "OrderViewSet" THEN OrderListResponse(u, Absent)
         ELSE Error(500)
    /\ UNCHANGED <<users, products, orders, items>>

\* The response is sent; the server waits for the next request.
Deliver ==
    /\ ~Idle
    /\ request' = NoRequest
    /\ response' = NoResponse
    /\ UNCHANGED <<users, products, orders, items>>

\* ------------------------- views.py: get_permissions, request by request
\* The worker threads of the server: each handles one request at a time.
MaxWorkers == 2
Workers == 1..MaxWorkers

\* An object's __dict__ without attributes.
EmptyDict == [k \in {} |-> <<>>]

\* The routes of the two product views with the methods each handles.
ProductRoutes ==
    {<<"ProductListCreateAPIView", "GET">>, <<"ProductListCreateAPIView", "POST">>,
     <<"ProductDetailAPIView", "GET">>, <<"ProductDetailAPIView", "PUT">>,
     <<"ProductDetailAPIView", "PATCH">>, <<"ProductDetailAPIView", "DELETE">>}

\* The methods for which get_permissions replaces [AllowAny] by [IsAdminUser]
\* (views.py:175 and views.py:195).
guarded_methods(view) ==
    IF view = "ProductListCreateAPIView" THEN {"POST"} ELSE {"PUT", "DELETE", "PATCH"}

\* A worker that handles no request.
IdleWorker == [pc |-> "idle", view |-> "none", method |-> "none", user |-> AnonymousUser,
               self |-> EmptyDict, allowed |-> FALSE]

\* The class bodies of the two views declare no permission_classes.
InitClassDict == [v \in {"ProductListCreateAPIView", "ProductDetailAPIView"} |-> EmptyDict]

\* Mutant: the assignment made on the class, type(self).permission_classes = value.
setattr_class(w, value) ==
    [self |-> workers[w].self,
     cls |-> WithRow(class_dict[workers[w].view], "permission_classes", value)]

\* self.permission_classes = value: the attribute is stored in the __dict__ of
\* the instance, the class keeps what it has.
setattr_self(w, value) ==
    [self |-> WithRow(workers[w].self, "permission_classes", value),
     cls |-> class_dict[workers[w].view]]

\* self.permission_classes read: the instance's attribute, the class's
\* without one.
getattr_self(w) ==
    IF "permission_classes" \in DOMAIN workers[w].self
    THEN workers[w].self["permission_classes"]
    ELSE class_dict[workers[w].view]["permission_classes"]

\* permission().has_permission(request, view) of a permission class
has_permission(class, u) ==
    CASE class = "AllowAny" -> AllowAny(u)
      [] class = "IsAuthenticated" -> IsAuthenticated(u)
      [] class = "IsAdminUser" -> IsAdminUser(u)

\* path(..., View.as_view()): every request gets an instance of its own of
\* the view class, with the request bound to it.
Dispatch(w, view, method, u) ==
    /\ workers[w].pc = "idle"
    /\ workers' = [workers EXCEPT ![w] =
                     [pc |-> "line174", view |-> view, method |-> method, user |-> u,
                      self |-> EmptyDict, allowed |-> FALSE]]
    /\ UNCHANGED <<users, products, orders, items, request, response, class_dict, info>>

\* get_permissions, first statement: self.permission_classes = [AllowAny]
AssignAllowAny(w) ==
    /\ workers[w].pc = "line174"
    /\ workers' = [workers EXCEPT ![w].self = setattr_self(w, <<"AllowAny">>).self,
                                  ![w].pc = "line175"]
    /\ class_dict' = [class_dict EXCEPT ![workers[w].view] = setattr_self(w, <<"AllowAny">>).cls]
    /\ UNCHANGED <<users, products, orders, items, request, response, info>>

\* get_permissions, second statement: for a guarded method
\* self.permission_classes = [IsAdminUser]
AssignIsAdminUser(w) ==
    /\ workers[w].pc = "line175"
    /\ IF workers[w].method \in guarded_methods(workers[w].view)
       THEN /\ workers' = [workers EXCEPT
                             ![w].self = setattr_self(w, <<"IsAdminUser">>).self,
                             ![w].pc = "line177"]
            /\ class_dict' = [class_dict EXCEPT
                                ![workers[w].view] = setattr_self(w, <<"IsAdminUser">>).cls]
       ELSE /\ workers' = [workers EXCEPT ![w].pc = "line177"]
            /\ UNCHANGED class_dict
    /\ UNCHANGED <<users, products, orders, items, request, response, info>>

\* get_permissions, last statement: super().get_permissions() builds the
\* permissions of self.permission_classes, and check_permissions asks every
\* one of them.
CheckPermissions(w) ==
    /\ workers[w].pc = "line177"
    /\ workers' = [workers EXCEPT
                     ![w].allowed = \A k \in DOMAIN getattr_self(w) :
                                        has_permission(getattr_self(w)[k], workers[w].user),
                     ![w].pc = "checked"]
    /\ UNCHANGED <<users, products, orders, items, request, response, class_dict, info>>

\* The request is answered (permission_denied, or the handler of the
\* method); the instance is dropped and the worker is free again.
Respond(w) ==
    /\ workers[w].pc = "checked"
    /\ workers' = [workers EXCEPT ![w] = IdleWorker]
    /\ UNCHANGED <<users, products, orders, items, request, response, class_dict, info>>

\* ------------------------------------------- views.py: ProductInfoAPIView
\* No product-info request in flight.
NoInfo == [pc |-> "idle", result_cache |-> <<>>, count |-> 0,
           data |-> [products |-> <<>>, count |-> 0, max_price |-> {}]]

\* products.aggregate(max_price=Max('price'))['max_price']: a query of its
\* own over the Product table as it is when the statement runs; None (the
\* empty set here) for a table without rows.
aggregate_Max_price ==
    IF DOMAIN products = {} THEN {}
    ELSE {CHOOSE m \in {products[p].price : p \in DOMAIN products} :
              \A p \in DOMAIN products : products[p].price <= m}

\* ProductInfoAPIView.get up to 'products': Product.objects.all() builds a
\* queryset and sends no query.
InfoGet ==
    /\ info.pc = "idle"
    /\ info' = [NoInfo EXCEPT !.pc = "len"]
    /\ UNCHANGED <<users, products, orders, items, request, response, workers, class_dict>>

\* 'count': len(products) sends the SELECT and keeps its rows in the
\* queryset's result cache.
InfoLen ==
    /\ info.pc = "len"
    /\ LET pks == SortedSeq(DOMAIN products)
           rows == [k \in 1..Len(pks) |-> ProductSerializer(pks[k])]
       IN info' = [info EXCEPT !.pc = "aggregate", !.result_cache = rows,
                               !.count = Len(rows)]
    /\ UNCHANGED <<users, products, orders, items, request, response, workers, class_dict>>

\* 'max_price': the aggregate query; then ProductInfoSerializer serializes
\* the dictionary, the products from the result cache, and the response is
\* built.
InfoAggregate ==
    /\ info.pc = "aggregate"
    /\ info' = [info EXCEPT !.pc = "done",
                            !.data = [products |-> info.result_cache,
                                      count |-> info.count,
                                      max_price |-> aggregate_Max_price]]
    /\ UNCHANGED <<users, products, orders, items, request, response, workers, class_dict>>

\* The response is sent.
InfoDeliver ==
    /\ info.pc = "done"
    /\ info' = NoInfo
    /\ UNCHANGED <<users, products, orders, items, request, response, workers, class_dict>>

\* ------------------------------------------- specification: the order API
\* The users of tests.py setUp beside a staff user: user 1 is staff, the
\* others are standard.
InitUsers == [u \in UserIds |-> [is_staff |-> u = 1]]

Init ==
    /\ users = InitUsers
    /\ products = <<>>
    /\ orders = <<>>
    /\ items = <<>>
    /\ request = NoRequest
    /\ response = NoResponse
    /\ workers = [w \in Workers |-> IdleWorker]
    /\ class_dict = InitClassDict
    /\ info = NoInfo

StatusParams == StatusChoices \cup {Absent}

\* A request is taken up when the server is idle.
Next ==
    \/ Idle /\ \E u \in Principals, s \in StatusParams : OrderList(u, s) /\ UNCHANGED stepwise
    \/ Idle /\ \E u \in Principals, pk \in OrderIds, s \in StatusParams :
           OrderRetrieve(u, pk, s)
           /\ UNCHANGED stepwise
    \/ Idle /\ \E u \in Principals, payload \in OrderPayloads, oid \in OrderIds :
           OrderCreate(u, payload, oid)
           /\ UNCHANGED stepwise
    \/ Idle /\ \E u \in Principals, pk \in OrderIds, payload \in OrderPayloads,
                   partial \in BOOLEAN : OrderUpdate(u, pk, payload, partial)
           /\ UNCHANGED stepwise
    \/ Idle /\ \E u \in Principals, pk \in OrderIds : OrderDestroy(u, pk) /\ UNCHANGED stepwise
    \/ Idle /\ \E u \in Principals : UserOrdersRequest(u) /\ UNCHANGED stepwise
    \/ Deliver /\ UNCHANGED stepwise

Spec == Init /\ [][Next]_vars

\* ----------------------------------------- specification: the product API
MaxPage == 2
ProductParams == [name : OneOrNone(NameValues), price__gt : OneOrNone({500}),
                  pagenum : OneOrNone(1..MaxPage), size : OneOrNone({1})]

ProductNext ==
    \/ Idle /\ \E u \in Principals, params \in ProductParams,
                  backends \in DefaultFilterBackends : ProductList(u, params, backends)
           /\ UNCHANGED stepwise
    \/ Idle /\ \E u \in Principals, payload \in ProductPayloads, pk \in ProductIds :
           ProductCreate(u, payload, pk)
           /\ UNCHANGED stepwise
    \/ Idle /\ \E u \in Principals, pk \in ProductIds : ProductRetrieve(u, pk)
           /\ UNCHANGED stepwise
    \/ Idle /\ \E u \in Principals, pk \in ProductIds, payload \in ProductPayloads,
                  partial \in BOOLEAN : ProductUpdate(u, pk, payload, partial)
           /\ UNCHANGED stepwise
    \/ Idle /\ \E u \in Principals, pk \in ProductIds : ProductDestroy(u, pk)
           /\ UNCHANGED stepwise
    \/ Deliver /\ UNCHANGED stepwise

SpecProduct == Init /\ [][ProductNext]_vars

\* ------------------------------------ admin.py and the ORM: rows come and go
\* The quantities a PositiveIntegerField takes: zero and up.
Quantities == 0..MaxQuantity

\* User.objects.create_user (tests.py:33); the admin site's add view
UserAdd(u) ==
    /\ Idle
    /\ u \in UserIds \ DOMAIN users
    /\ users' = WithRow(users, u, [is_staff |-> FALSE])
    /\ UNCHANGED <<products, orders, items, request, response>>

\* User.delete(): the user's orders go with it, and their items with them
UserDelete(u) ==
    /\ Idle
    /\ u \in DOMAIN users
    /\ users' = Without(users, {u})
    /\ orders' = Without(orders, OrdersOfUsers({u}))
    /\ items' = Without(items, ItemsOfOrders(OrdersOfUsers({u})))
    /\ UNCHANGED <<products, request, response>>

\* The admin site's add view of Product: the product of the pricing scenario
ProductAdd(pk) ==
    /\ Idle
    /\ pk \in ProductIds \ DOMAIN products
    /\ products' = WithRow(products, pk, [name |-> "pen", price |-> 1999, stock |-> 3])
    /\ UNCHANGED <<users, orders, items, request, response>>

\* Product.delete()
ProductDelete(pk) ==
    /\ Idle
    /\ pk \in DOMAIN products
    /\ products' = Without(products, {pk})
    /\ items' = Without(items, ItemsOfProducts({pk}))
    /\ UNCHANGED <<users, orders, request, response>>

\* Order.objects.create(user=u) (tests.py:37)
OrderAdd(oid, u) ==
    /\ Idle
    /\ oid \in OrderIds \ DOMAIN orders
    /\ u \in DOMAIN users
    /\ orders' = WithRow(orders, oid, [user |-> u, status |-> PENDING])
    /\ UNCHANGED <<users, products, items, request, response>>

\* Order.delete()
OrderDelete(oid) ==
    /\ Idle
    /\ oid \in DOMAIN orders
    /\ orders' = Without(orders, {oid})
    /\ items' = Without(items, ItemsOfOrders({oid}))
    /\ UNCHANGED <<users, products, request, response>>

\* OrderItemInLine of OrderAdmin: an item added to a stored order for a
\* stored product, with a quantity the field accepts
OrderItemAdd(i, o, p, q) ==
    /\ Idle
    /\ i \in ItemIds \ DOMAIN items
    /\ o \in DOMAIN orders
    /\ p \in DOMAIN products
    /\ items' = WithRow(items, i, [order |-> o, product |-> p, quantity |-> q])
    /\ UNCHANGED <<users, products, orders, request, response>>

\* OrderItem.delete()
OrderItemDelete(i) ==
    /\ Idle
    /\ i \in DOMAIN items
    /\ items' = Without(items, {i})
    /\ UNCHANGED <<users, products, orders, request, response>>

StoreNext ==
    \/ \E u \in UserIds : UserAdd(u) /\ UNCHANGED stepwise
    \/ \E u \in UserIds : UserDelete(u) /\ UNCHANGED stepwise
    \/ \E pk \in ProductIds : ProductAdd(pk) /\ UNCHANGED stepwise
    \/ \E pk \in ProductIds : ProductDelete(pk) /\ UNCHANGED stepwise
    \/ \E oid \in OrderIds, u \in UserIds : OrderAdd(oid, u) /\ UNCHANGED stepwise
    \/ \E oid \in OrderIds : OrderDelete(oid) /\ UNCHANGED stepwise
    \/ \E i \in ItemIds, o \in OrderIds, p \in ProductIds : OrderItemAdd(i, o, p, 1)
           /\ UNCHANGED stepwise
    \/ \E i \in ItemIds : OrderItemDelete(i) /\ UNCHANGED stepwise

SpecStore == Init /\ [][StoreNext]_vars

\* ------------------------------------------- specification: order pricing
\* The pricing scenario: every product is stored, product 1 at 19.99 with
\* stock 3, and every order, each Pending, owned by the users in turn.
ScenarioPrice(pk) == IF pk = 1 THEN 1999 ELSE 250 * pk
ScenarioOwner(o) == ((o - 1) % MaxUsers) + 1

InitPricing ==
    /\ users = InitUsers
    /\ products = [pk \in ProductIds |->
                     [name |-> "pen", price |-> ScenarioPrice(pk), stock |-> 3]]
    /\ orders = [o \in OrderIds |-> [user |-> ScenarioOwner(o), status |-> PENDING]]
    /\ items = <<>>
    /\ request = NoRequest
    /\ response = NoResponse
    /\ workers = [w \in Workers |-> IdleWorker]
    /\ class_dict = InitClassDict
    /\ info = NoInfo

PricingNext ==
    \/ \E i \in ItemIds, o \in OrderIds, p \in ProductIds, q \in Quantities :
           OrderItemAdd(i, o, p, q)
           /\ UNCHANGED stepwise
    \/ \E i \in ItemIds : OrderItemDelete(i) /\ UNCHANGED stepwise
    \/ Idle /\ \E u \in Principals : OrderList(u, Absent) /\ UNCHANGED stepwise
    \/ Idle /\ \E u \in Principals, pk \in OrderIds : OrderRetrieve(u, pk, Absent)
           /\ UNCHANGED stepwise
    \/ Deliver /\ UNCHANGED stepwise

SpecPricing == InitPricing /\ [][PricingNext]_vars

\* ------------------------- specification: product requests side by side
\* Every worker takes up product requests and runs get_permissions one
\* statement at a time; the statements of different workers interleave.
PermissionsNext ==
    \/ \E w \in Workers, route \in ProductRoutes, u \in Principals :
           Dispatch(w, route[1], route[2], u)
    \/ \E w \in Workers : AssignAllowAny(w)
    \/ \E w \in Workers : AssignIsAdminUser(w)
    \/ \E w \in Workers : CheckPermissions(w)
    \/ \E w \in Workers : Respond(w)

SpecPermissions == Init /\ [][PermissionsNext]_vars

\* --------------------- specification: product-info beside product writes
\* The writes of a staff user (user 1) that other requests make while a
\* product-info request is handled: a product created, its price changed,
\* a product deleted.  Prices 5.00 and 19.99.
InfoPrices == {500, 1999}
InfoCreatePayloads == [name : {{"pen"}}, price : {{v} : v \in InfoPrices}, stock : {{3}}]
InfoUpdatePayloads == [name : {{}}, price : {{v} : v \in InfoPrices}, stock : {{}}]

InfoNext ==
    \/ InfoGet
    \/ InfoLen
    \/ InfoAggregate
    \/ InfoDeliver
    \/ Idle /\ \E payload \in InfoCreatePayloads, pk \in ProductIds :
           ProductCreate(1, payload, pk) /\ UNCHANGED stepwise
    \/ Idle /\ \E pk \in ProductIds, payload \in InfoUpdatePayloads :
           ProductUpdate(1, pk, payload, TRUE) /\ UNCHANGED stepwise
    \/ Idle /\ \E pk \in ProductIds : ProductDestroy(1, pk) /\ UNCHANGED stepwise
    \/ Deliver /\ UNCHANGED stepwise

SpecInfo == Init /\ [][InfoNext]_vars

\* --------------------------------------------------- claims on the order API
\* The orders a principal may read: all of them for a staff user, its own
\* for a standard user.
MayRead(u, o) == is_staff(u) \/ orders[o].user = u

OrderIdsOf(data) == {d.order_id : d \in data}

C2_UserOrdersAnonymousIs401 ==
    (request.view = "user-orders" /\ request.user = AnonymousUser)
    => (response.status = 401 /\ response.data = {})

\* C3, as claimed: a step that changes the Order table is a request of a
\* staff principal.
C3_OnlyStaffMutateOrders ==
    [][orders' # orders => is_staff(request'.user)]_vars

\* C3, amended: a step that changes the Order table is an OrderViewSet
\* request of an authenticated principal; it changes no row but the one it
\* creates or addresses; and an update or delete of a standard principal
\* addresses an order that principal owns.
C3_OnlyAuthenticatedOwnersMutateOrders ==
    [][orders' # orders =>
        /\ request'.view = "OrderViewSet"
        /\ is_authenticated(request'.user)
        /\ request'.action \in {"create", "update", "partial_update", "destroy"}
        /\ request'.action = "create" =>
             /\ \A o \in DOMAIN orders : o \in DOMAIN orders' /\ orders'[o] = orders[o]
             /\ Cardinality(DOMAIN orders') = Cardinality(DOMAIN orders) + 1
        /\ request'.action # "create" =>
             /\ request'.pk \in DOMAIN orders
             /\ is_staff(request'.user) \/ orders[request'.pk].user = request'.user
             /\ \A o \in (DOMAIN orders) \ {request'.pk} :
                    o \in DOMAIN orders' /\ orders'[o] = orders[o]
             /\ DOMAIN orders' \subseteq DOMAIN orders]_vars

\* A standard user has set the status of its own order.
C3_Witness ==
    /\ request.view = "OrderViewSet"
    /\ request.action \in {"update", "partial_update"}
    /\ is_authenticated(request.user) /\ ~is_staff(request.user)
    /\ response.status = 200
    /\ request.pk \in DOMAIN orders
    /\ orders[request.pk].status = CONFIRMED
    /\ request.payload.status = {CONFIRMED}

ProductViews == {"ProductListCreateAPIView", "ProductDetailAPIView"}
WriteMethods == {"POST", "PUT", "PATCH", "DELETE"}

\* C4: the Product table changes only in a step that handles a POST, PUT,
\* PATCH or DELETE of a staff principal; such a request of an anonymous or
\* standard principal is denied (401 or 403) and leaves the table as it
\* was; a GET is denied to no caller.
C4_OnlyStaffWriteProducts ==
    [][/\ products' # products =>
             /\ request'.view \in ProductViews
             /\ request'.method \in WriteMethods
             /\ is_staff(request'.user)
       /\ (request'.view \in ProductViews /\ request'.method \in WriteMethods
              /\ ~is_staff(request'.user)) =>
             /\ response'.status \in {401, 403}
             /\ products' = products
       /\ (request'.view \in ProductViews /\ request'.method = "GET") =>
             response'.status \notin {401, 403}]_vars

\* A standard user's DELETE of a stored product was denied.
C4_Witness ==
    /\ request.view = "ProductDetailAPIView" /\ request.method = "DELETE"
    /\ is_authenticated(request.user) /\ ~is_staff(request.user)
    /\ request.pk \in DOMAIN products
    /\ response.status = 403

\* C5: every product a successful GET of the product list returns has
\* stock > 0, whatever name or price parameter is sent.
C5_ListedProductsAreInStock ==
    (request.view = "ProductListCreateAPIView" /\ request.action = "list"
        /\ response.status = 200)
    => \A k \in DOMAIN response.results : response.results[k].stock > 0

\* C6: a product create or update that sends a price <= 0 leaves the Product
\* table as it was and is not answered with success; when it reaches the
\* serializer (a staff principal, and for an update a stored product) it is
\* answered 400.  Such a request with a price > 0 and its other fields
\* present passes: it is answered 200 or 201 and the price is stored.
C6_NonPositivePriceRejected ==
    [][(request'.view \in ProductViews /\ request'.method \in {"POST", "PUT", "PATCH"}
          /\ request'.payload.price # {}) =>
        LET price == Sent(request'.payload.price)
            reached == /\ is_staff(request'.user)
                       /\ request'.method = "POST" \/ request'.pk \in DOMAIN products
            complete == \/ request'.method = "PATCH"
                        \/ request'.payload.name # {} /\ request'.payload.stock # {}
        IN /\ price <= 0 =>
                 /\ products' = products
                 /\ response'.status \notin {200, 201}
                 /\ reached => response'.status = 400
           /\ (price > 0 /\ reached /\ complete) =>
                 /\ response'.status \in {200, 201}
                 /\ Len(response'.results) = 1
                 /\ response'.results[1].price = price
                 /\ \E pk \in DOMAIN products' : products'[pk].price = price]_vars

\* A staff user's POST with price 0 was answered 400.
C6_Witness ==
    /\ request.view = "ProductListCreateAPIView" /\ request.method = "POST"
    /\ is_staff(request.user)
    /\ request.payload.price = {0}
    /\ response.status = 400

\* ------------------------------------------- claims on pricing and the store
\* The sum of price times quantity over a set of stored items.
RECURSIVE SumOfItems(_)
SumOfItems(S) ==
    IF S = {} THEN 0
    ELSE LET i == CHOOSE x \in S : TRUE
         IN products[items[i].product].price * items[i].quantity + SumOfItems(S \ {i})

RECURSIVE SumOfSubtotals(_)
SumOfSubtotals(lines) ==
    IF lines = <<>> THEN 0 ELSE Head(lines).item_subtotal + SumOfSubtotals(Tail(lines))

\* C7: every order an order response carries reports one line per stored
\* item of the order, each with item_subtotal = product price x quantity to
\* the hundredth, and a total_price that is the sum of these subtotals: the
\* sum of price x quantity over the order's items, 0 for no item.
C7_TotalPriceIsSumOfSubtotals ==
    (request.view = "OrderViewSet" /\ response.status = 200)
    => \A d \in response.data :
         /\ Len(d.items) = Cardinality(ItemsOfOrders({d.order_id}))
         /\ \A k \in DOMAIN d.items :
                d.items[k].item_subtotal = d.items[k].product_price * d.items[k].quantity
         /\ d.total_price = SumOfSubtotals(d.items)
         /\ d.total_price = SumOfItems(ItemsOfOrders({d.order_id}))
         /\ ItemsOfOrders({d.order_id}) = {} => d.total_price = 0

\* An order with two lines, one of them 19.99 x 2 = 39.98, was returned.
C7_Witness ==
    /\ request.view = "OrderViewSet" /\ response.status = 200
    /\ \E d \in response.data :
         /\ Len(d.items) = 2
         /\ \E k \in DOMAIN d.items :
              /\ d.items[k].product_price = 1999
              /\ d.items[k].quantity = 2
              /\ d.items[k].item_subtotal = 3998
         /\ d.total_price > 3998

\* C9: every stored OrderItem refers to a stored Order and a stored Product,
\* and every stored Order to a stored User.
C9_ReferentialIntegrity ==
    /\ \A i \in DOMAIN items :
         items[i].order \in DOMAIN orders /\ items[i].product \in DOMAIN products
    /\ \A o \in DOMAIN orders : orders[o].user \in DOMAIN users

\* A user and a product have been deleted, and an item of another user's
\* order for another product is still stored.
C9_Witness ==
    /\ DOMAIN users # UserIds
    /\ DOMAIN products # ProductIds
    /\ DOMAIN products # {}
    /\ DOMAIN items # {}

\* C10: every stored OrderItem has quantity >= 1.
C10_QuantityAtLeastOne ==
    \A i \in DOMAIN items : items[i].quantity >= 1

\* ------------------------------------ claims on requests handled side by side
\* What get_permissions decides for a request taken by itself.
OwnDecision(view, method, u) ==
    IF view = "ProductListCreateAPIView" THEN ProductListCreate_permission(method, u)
    ELSE ProductDetail_permission(method, u)

\* What get_permissions leaves in self.permission_classes for a request
\* taken by itself.
OwnPermissionClasses(view, method) ==
    IF method \in guarded_methods(view) THEN <<"IsAdminUser">> ELSE <<"AllowAny">>

\* C11: under every interleaving of the statements of get_permissions of
\* concurrent product requests, the permission list a request evaluates and
\* the decision it gets depend only on its own method and principal: no
\* assignment of one request changes what another reads, nothing is
\* assigned on the view classes, and a POST, PUT, PATCH or DELETE of an
\* anonymous or standard principal is never allowed, whatever GET runs
\* beside it.
C11_PermissionDependsOnOwnRequest ==
    /\ class_dict = InitClassDict
    /\ \A w \in Workers :
         /\ workers[w].pc = "line175" => getattr_self(w) = <<"AllowAny">>
         /\ workers[w].pc \in {"line177", "checked"} =>
                getattr_self(w) = OwnPermissionClasses(workers[w].view, workers[w].method)
         /\ workers[w].pc = "checked" =>
                /\ workers[w].allowed =
                       OwnDecision(workers[w].view, workers[w].method, workers[w].user)
                /\ (workers[w].method # "GET" /\ ~is_staff(workers[w].user))
                       => ~workers[w].allowed

\* C11 witness: an anonymous POST has been denied while an anonymous GET on
\* the same view class, handled by another worker, has been allowed and is
\* not yet answered.
C11_Witness ==
    \E w1, w2 \in Workers :
        /\ w1 # w2
        /\ workers[w1].pc = "checked" /\ workers[w1].method = "POST"
        /\ workers[w1].user = AnonymousUser /\ ~workers[w1].allowed
        /\ workers[w2].pc = "checked" /\ workers[w2].method = "GET"
        /\ workers[w2].view = workers[w1].view
        /\ workers[w2].user = AnonymousUser /\ workers[w2].allowed

\* The maximum price among the products of a response, null (the empty set)
\* for an empty list.
MaxPriceOf(list) ==
    IF list = <<>> THEN {}
    ELSE {CHOOSE m \in {list[k].price : k \in DOMAIN list} :
              \A k \in DOMAIN list : list[k].price <= m}

\* C12: every response of the product-info endpoint is consistent in itself:
\* count is the number of products in its products list and max_price is the
\* maximum price among those products, null for an empty list, also when
\* other requests create, update or delete products between the query that
\* loads the products and the aggregate query.
C12_InfoResponseConsistent ==
    info.pc = "done" =>
        /\ info.data.count = Len(info.data.products)
        /\ info.data.max_price = MaxPriceOf(info.data.products)

====
